---- MODULE Spec2Model ----
(***************************************************************************)
(* Model of the SettingsPage component                                     *)
(* (frontend-new/src/components/Settings/SettingsPage.tsx): the load/save  *)
(* lifecycle of the settings aggregate, the tab router, the per-tab save   *)
(* callbacks and the reload timer started after an AI save.                *)
(*                                                                         *)
(* The settings service is external: a request that is in flight is        *)
(* answered, at any later moment and in any order, either by a failure or  *)
(* by some UserSettings aggregate.  The JavaScript event loop runs one     *)
(* handler at a time, so every action below is one whole handler (or one   *)
(* whole continuation after an await).                                     *)
(***************************************************************************)
EXTENDS Integers, Sequences, FiniteSets, TLC

VARIABLES
    activeTab,  \* useState<TabId>('sources')
    settings,   \* useState<UserSettings | null>(null)
    loading,    \* useState(true)
    saving,     \* useState(false)
    fetch,      \* the getSettings() call: "idle", "pending", "ok", "failed"
    nFetch,     \* number of getSettings() calls issued
    inflight,   \* updateSettings() calls awaiting their response, issue order
    nSaves,     \* number of handleSave calls so far
    arrivals,   \* history: the finished saves, in order of response arrival
    timers,     \* pending setTimeout callbacks: remaining delay in ms
    mounted,    \* FALSE once onClose has been invoked
    reloaded,   \* TRUE once window.location.reload() has run
    response,   \* history: the latest successful response of the service
    effects     \* history: the calls made by the handler that ran last

vars == <<activeTab, settings, loading, saving, fetch, nFetch, inflight,
          nSaves, arrivals, timers, mounted, reloaded,
          response, effects>>

(* ------------------------------ bounds --------------------------------- *)

\* distinct values an opaque settings slice can take
MaxVersion == 1
\* handleSave calls over the lifetime of the dialog
MaxSaves == 2

(* ----------------------------- constants ------------------------------- *)

ReloadDelayMs == 1000
\* granularity of the passage of time in the model
TickMs == ReloadDelayMs

TabId == {"sources", "generation", "export", "ui", "cache", "ai"}

\* settings === null
Null == [null |-> TRUE]

\* the object literal of the AITab fallback
DefaultAI ==
    [enabled |-> FALSE, ollama_url |-> "http://localhost:11434",
     vision_model |-> "qwen3-vl:235b-cloud",
     coder_model |-> "qwen3-coder:480b-cloud",
     auto_analyze |-> FALSE, timeout_seconds |-> 120]

\* AI configurations an editor or the service can produce
AIConfigs == {DefaultAI, [DefaultAI EXCEPT !.enabled = TRUE]}

\* values of the five opaque slices
Slices == 1..MaxVersion

\* UserSettings as the service returns them: five mandatory fields, ai
\* optional; one aggregate per version of the stored slices and ai choice
UserSettings ==
    { [credentials |-> v, generation |-> v, export_profiles |-> v,
       ui |-> v, cache |-> v] : v \in Slices }
    \cup
    { [credentials |-> v, generation |-> v, export_profiles |-> v,
       ui |-> v, cache |-> v, ai |-> a] : v \in Slices, a \in AIConfigs }

(* ------------------------------ render --------------------------------- *)

\* Blocked that also shows the spinner while a save is awaited
Blocked_WhileSaving == loading \/ settings = Null \/ saving

\* if (loading || !settings) return <spinner/>
Blocked == loading \/ settings = Null

\* what is on screen: nothing after unmount or page reload
Rendered == mounted /\ ~reloaded /\ ~Blocked

\* settings.ai || { ...defaults }
AISettings ==
    IF "ai" \in DOMAIN settings THEN settings.ai ELSE DefaultAI

\* Editors whose export conditional was pasted with the test of the ui one
Editors_Pasted ==
    IF ~Rendered THEN {}
    ELSE
      {[tab |-> "sources", slice |-> settings.credentials, saving |-> saving]
          : x \in {t \in {"sources"} : activeTab = t}}
      \cup
      {[tab |-> "generation", slice |-> settings.generation, saving |-> saving]
          : x \in {t \in {"generation"} : activeTab = t}}
      \cup
      {[tab |-> "export", slice |-> settings.export_profiles, saving |-> saving]
          : x \in {t \in {"ui"} : activeTab = t}}
      \cup
      {[tab |-> "ui", slice |-> settings.ui, saving |-> saving]
          : x \in {t \in {"ui"} : activeTab = t}}
      \cup
      {[tab |-> "ai", slice |-> AISettings, saving |-> saving]
          : x \in {t \in {"ai"} : activeTab = t}}
      \cup
      {[tab |-> "cache", slice |-> settings.cache, saving |-> saving]
          : x \in {t \in {"cache"} : activeTab = t}}

\* the content area: one conditional per tab
Editors ==
    IF ~Rendered THEN {}
    ELSE
      {[tab |-> "sources", slice |-> settings.credentials, saving |-> saving]
          : x \in {t \in {"sources"} : activeTab = t}}
      \cup
      {[tab |-> "generation", slice |-> settings.generation, saving |-> saving]
          : x \in {t \in {"generation"} : activeTab = t}}
      \cup
      {[tab |-> "export", slice |-> settings.export_profiles, saving |-> saving]
          : x \in {t \in {"export"} : activeTab = t}}
      \cup
      {[tab |-> "ui", slice |-> settings.ui, saving |-> saving]
          : x \in {t \in {"ui"} : activeTab = t}}
      \cup
      {[tab |-> "ai", slice |-> AISettings, saving |-> saving]
          : x \in {t \in {"ai"} : activeTab = t}}
      \cup
      {[tab |-> "cache", slice |-> settings.cache, saving |-> saving]
          : x \in {t \in {"cache"} : activeTab = t}}

\* the values the editor of a tab can hand to its onSave: handleSave only
\* forwards the value, so one edited slice stands for all of them
EditorValues(tab) == IF tab = "ai" THEN AIConfigs ELSE {1}

\* OnSave with the ui callback pasted from the cache one
OnSave_Pasted(tab, v) ==
    CASE tab = "sources"    -> [credentials |-> v]
      [] tab = "generation" -> [generation |-> v]
      [] tab = "export"     -> [export_profiles |-> v]
      [] tab = "ui"         -> [cache |-> v]
      [] tab = "ai"         -> [ai |-> v]
      [] tab = "cache"      -> [cache |-> v]

\* onSave={(x) => handleSave({ x })} of each tab
OnSave(tab, v) ==
    CASE tab = "sources"    -> [credentials |-> v]
      [] tab = "generation" -> [generation |-> v]
      [] tab = "export"     -> [export_profiles |-> v]
      [] tab = "ui"         -> [ui |-> v]
      [] tab = "ai"         -> [ai |-> v]
      [] tab = "cache"      -> [cache |-> v]

(* ------------------------------- Init ---------------------------------- *)

Init ==
    /\ activeTab = "sources"
    /\ settings = Null
    /\ loading = TRUE
    /\ saving = FALSE
    /\ fetch = "idle"
    /\ nFetch = 0
    /\ inflight = <<>>
    /\ nSaves = 0
    /\ arrivals = <<>>
    /\ timers = <<>>
    /\ mounted = TRUE
    /\ reloaded = FALSE
    /\ response = Null
    /\ effects = <<>>

(* ------------------------------ actions -------------------------------- *)

\* useEffect(() => { loadSettings(); }, []) up to the await
Mount ==
    /\ fetch = "idle"
    /\ ~reloaded
    /\ fetch' = "pending"
    /\ nFetch' = nFetch + 1
    /\ effects' = <<"getSettings">>
    /\ UNCHANGED <<activeTab, settings, loading, saving, inflight, nSaves,
                   arrivals, timers, mounted, reloaded, response>>

\* LoadOk that stores the AI fallback when the service returned none
LoadOk_Materialise(data) ==
    /\ fetch = "pending"
    /\ ~reloaded
    /\ settings' = IF "ai" \in DOMAIN data THEN data
                   ELSE [credentials |-> data.credentials,
                         generation |-> data.generation,
                         export_profiles |-> data.export_profiles,
                         ui |-> data.ui, cache |-> data.cache,
                         ai |-> DefaultAI]
    /\ loading' = FALSE
    /\ fetch' = "ok"
    /\ response' = data
    /\ effects' = <<"setSettings", "setLoading">>
    /\ UNCHANGED <<activeTab, saving, nFetch, inflight, nSaves, arrivals,
                   timers, mounted, reloaded>>

\* loadSettings: try branch, then finally
LoadOk(data) ==
    /\ fetch = "pending"
    /\ ~reloaded
    /\ settings' = data
    /\ loading' = FALSE
    /\ fetch' = "ok"
    /\ response' = data
    /\ effects' = <<"setSettings", "setLoading">>
    /\ UNCHANGED <<activeTab, saving, nFetch, inflight, nSaves, arrivals,
                   timers, mounted, reloaded>>

\* LoadFail that falls back to an empty aggregate instead of leaving null
LoadFail_Fallback ==
    /\ fetch = "pending"
    /\ ~reloaded
    /\ settings' = [credentials |-> 1, generation |-> 1, export_profiles |-> 1,
                    ui |-> 1, cache |-> 1]
    /\ loading' = FALSE
    /\ fetch' = "failed"
    /\ effects' = <<"console.error", "setSettings", "setLoading">>
    /\ UNCHANGED <<activeTab, saving, nFetch, inflight, nSaves, arrivals,
                   timers, mounted, reloaded, response>>

\* LoadFail whose setLoading(false) sits in the try branch, not in finally
LoadFail_NoFinally ==
    /\ fetch = "pending"
    /\ ~reloaded
    /\ fetch' = "failed"
    /\ effects' = <<"console.error">>
    /\ UNCHANGED <<activeTab, settings, loading, saving, nFetch, inflight,
                   nSaves, arrivals, timers, mounted, reloaded, response>>

\* loadSettings: catch branch, then finally
LoadFail ==
    /\ fetch = "pending"
    /\ ~reloaded
    /\ loading' = FALSE
    /\ fetch' = "failed"
    /\ effects' = <<"console.error", "setLoading">>
    /\ UNCHANGED <<activeTab, settings, saving, nFetch, inflight, nSaves,
                   arrivals, timers, mounted, reloaded, response>>

\* SelectTab that also re-runs loadSettings
SelectTab_Refetch(id) ==
    /\ Rendered
    /\ activeTab' = id
    /\ loading' = TRUE
    /\ fetch' = "pending"
    /\ nFetch' = nFetch + 1
    /\ effects' = <<"setActiveTab", "getSettings">>
    /\ UNCHANGED <<settings, saving, inflight, nSaves, arrivals, timers,
                   mounted, reloaded, response>>

\* onClick={() => setActiveTab(tab.id)} of a sidebar button
SelectTab(id) ==
    /\ Rendered
    /\ activeTab' = id
    /\ effects' = <<"setActiveTab">>
    /\ UNCHANGED <<settings, loading, saving, fetch, nFetch, inflight, nSaves,
                   arrivals, timers, mounted, reloaded, response>>

\* the sequence s without its i-th element
RemoveAt(s, i) == SubSeq(s, 1, i - 1) \o SubSeq(s, i + 1, Len(s))

\* HandleSave that also applies the update to the local settings at once
HandleSave_Optimistic(updates, tab) ==
    /\ nSaves < MaxSaves
    /\ saving' = TRUE
    /\ settings' = [f \in DOMAIN settings \cup DOMAIN updates |->
                      IF f \in DOMAIN updates THEN updates[f] ELSE settings[f]]
    /\ nSaves' = nSaves + 1
    /\ inflight' = Append(inflight,
                      [seq |-> nSaves + 1, tab |-> tab, updates |-> updates])
    /\ effects' = <<"setSaving", "setSettings", "updateSettings">>
    /\ UNCHANGED <<activeTab, loading, fetch, nFetch, arrivals, timers,
                   mounted, reloaded, response>>

\* HandleSave that returns at once when a save is already in progress
HandleSave_Guarded(updates, tab) ==
    /\ ~saving
    /\ nSaves < MaxSaves
    /\ saving' = TRUE
    /\ nSaves' = nSaves + 1
    /\ inflight' = Append(inflight,
                      [seq |-> nSaves + 1, tab |-> tab, updates |-> updates])
    /\ effects' = <<"setSaving", "updateSettings">>
    /\ UNCHANGED <<activeTab, settings, loading, fetch, nFetch, arrivals,
                   timers, mounted, reloaded, response>>

\* handleSave up to the await: setSaving(true); settingsApi.updateSettings(updates)
\* (seq and tab are history: the order of issue, the issuing tab)
HandleSave(updates, tab) ==
    /\ nSaves < MaxSaves
    /\ saving' = TRUE
    /\ nSaves' = nSaves + 1
    /\ inflight' = Append(inflight,
                      [seq |-> nSaves + 1, tab |-> tab, updates |-> updates])
    /\ effects' = <<"setSaving", "updateSettings">>
    /\ UNCHANGED <<activeTab, settings, loading, fetch, nFetch, arrivals,
                   timers, mounted, reloaded, response>>

\* Save with the editor of the active tab placed outside the loading gate
Save_Ungated ==
    /\ mounted /\ ~reloaded
    /\ \E v \in EditorValues(activeTab) :
          HandleSave(OnSave(activeTab, v), activeTab)

\* the editor on screen calls its onSave
Save ==
    \E e \in Editors : \E v \in EditorValues(e.tab) :
        HandleSave(OnSave(e.tab, v), e.tab)

\* ReloadNeeded without the presence check
ReloadNeeded_Always(updates) == TRUE

\* if (updates.ai !== undefined)
ReloadNeeded(updates) == "ai" \in DOMAIN updates

\* SuccessEffects with the timer started before the notification
SuccessEffects_TimerFirst(updates) ==
    <<"setSettings">>
    \o (IF ReloadNeeded(updates) THEN <<"setTimeout">> ELSE <<>>)
    \o <<"alert:saved", "setSaving">>

\* the statements of the try branch after the await, then finally, in order
SuccessEffects(updates) ==
    <<"setSettings", "alert:saved">>
    \o (IF ReloadNeeded(updates) THEN <<"setTimeout">> ELSE <<>>)
    \o <<"setSaving">>

\* SaveOk that drops the response of any request but the newest issued
SaveOk_NewestOnly(i, updated) ==
    /\ i \in 1..Len(inflight)
    /\ ~reloaded
    /\ settings' = IF inflight[i].seq = nSaves THEN updated ELSE settings
    /\ timers' = IF ReloadNeeded(inflight[i].updates)
                 THEN Append(timers, ReloadDelayMs) ELSE timers
    /\ saving' = FALSE
    /\ inflight' = RemoveAt(inflight, i)
    /\ arrivals' = Append(arrivals, [seq |-> inflight[i].seq, ok |-> TRUE])
    /\ response' = updated
    /\ effects' = SuccessEffects(inflight[i].updates)
    /\ UNCHANGED <<activeTab, loading, fetch, nFetch, nSaves, mounted,
                   reloaded>>

\* SaveOk that calls reload() at once instead of passing it to setTimeout
SaveOk_ReloadNow(i, updated) ==
    /\ i \in 1..Len(inflight)
    /\ ~reloaded
    /\ settings' = updated
    /\ reloaded' = ReloadNeeded(inflight[i].updates)
    /\ timers' = IF ReloadNeeded(inflight[i].updates)
                 THEN Append(timers, ReloadDelayMs) ELSE timers
    /\ saving' = FALSE
    /\ inflight' = RemoveAt(inflight, i)
    /\ arrivals' = Append(arrivals, [seq |-> inflight[i].seq, ok |-> TRUE])
    /\ response' = updated
    /\ effects' = SuccessEffects(inflight[i].updates)
    /\ UNCHANGED <<activeTab, loading, fetch, nFetch, nSaves, mounted>>

\* handleSave after the await: try branch, then finally
SaveOk(i, updated) ==
    /\ i \in 1..Len(inflight)
    /\ ~reloaded
    /\ settings' = updated
    /\ timers' = IF ReloadNeeded(inflight[i].updates)
                 THEN Append(timers, ReloadDelayMs) ELSE timers
    /\ saving' = FALSE
    /\ inflight' = RemoveAt(inflight, i)
    /\ arrivals' = Append(arrivals, [seq |-> inflight[i].seq, ok |-> TRUE])
    /\ response' = updated
    /\ effects' = SuccessEffects(inflight[i].updates)
    /\ UNCHANGED <<activeTab, loading, fetch, nFetch, nSaves, mounted,
                   reloaded>>

\* SaveFail that resets the local settings
SaveFail_Clears(i) ==
    /\ i \in 1..Len(inflight)
    /\ ~reloaded
    /\ settings' = Null
    /\ saving' = FALSE
    /\ inflight' = RemoveAt(inflight, i)
    /\ arrivals' = Append(arrivals, [seq |-> inflight[i].seq, ok |-> FALSE])
    /\ effects' = <<"console.error", "alert:failed", "setSettings", "setSaving">>
    /\ UNCHANGED <<activeTab, loading, fetch, nFetch, nSaves,
                   timers, mounted, reloaded, response>>

\* SaveFail whose setSaving(false) sits in the try branch, not in finally
SaveFail_NoFinally(i) ==
    /\ i \in 1..Len(inflight)
    /\ ~reloaded
    /\ inflight' = RemoveAt(inflight, i)
    /\ arrivals' = Append(arrivals, [seq |-> inflight[i].seq, ok |-> FALSE])
    /\ effects' = <<"console.error", "alert:failed">>
    /\ UNCHANGED <<activeTab, settings, loading, saving, fetch, nFetch, nSaves,
                   timers, mounted, reloaded, response>>

\* handleSave after the await: catch branch, then finally
SaveFail(i) ==
    /\ i \in 1..Len(inflight)
    /\ ~reloaded
    /\ saving' = FALSE
    /\ inflight' = RemoveAt(inflight, i)
    /\ arrivals' = Append(arrivals, [seq |-> inflight[i].seq, ok |-> FALSE])
    /\ effects' = <<"console.error", "alert:failed", "setSaving">>
    /\ UNCHANGED <<activeTab, settings, loading, fetch, nFetch, nSaves,
                   timers, mounted, reloaded, response>>

\* Close with an unmount cleanup that clears the pending timers
Close_ClearsTimers ==
    /\ Rendered
    /\ mounted' = FALSE
    /\ timers' = <<>>
    /\ effects' = <<"onClose", "clearTimeout">>
    /\ UNCHANGED <<activeTab, settings, loading, saving, fetch, nFetch,
                   inflight, nSaves, arrivals, reloaded, response>>

\* onClick={onClose} of the header button: the parent removes the dialog
Close ==
    /\ Rendered
    /\ mounted' = FALSE
    /\ effects' = <<"onClose">>
    /\ UNCHANGED <<activeTab, settings, loading, saving, fetch, nFetch,
                   inflight, nSaves, arrivals, timers, reloaded, response>>

\* TickMs of time pass and no handler runs; a timer that is due stays due
\* until its callback runs
Tick ==
    /\ ~reloaded
    /\ \E k \in 1..Len(timers) : timers[k] > 0
    /\ timers' = [k \in 1..Len(timers) |->
                    IF timers[k] > TickMs THEN timers[k] - TickMs ELSE 0]
    /\ effects' = <<>>
    /\ UNCHANGED <<activeTab, settings, loading, saving, fetch, nFetch,
                   inflight, nSaves, arrivals, mounted, reloaded, response>>

\* the setTimeout callback: window.location.reload()
Reload ==
    /\ ~reloaded
    /\ \E k \in 1..Len(timers) : timers[k] = 0
    /\ reloaded' = TRUE
    /\ effects' = <<"window.location.reload">>
    /\ UNCHANGED <<activeTab, settings, loading, saving, fetch, nFetch,
                   inflight, nSaves, arrivals, timers, mounted, response>>

Next ==
    \/ Mount
    \/ \E data \in UserSettings : LoadOk(data)
    \/ LoadFail
    \/ \E id \in TabId : SelectTab(id)
    \/ Save
    \/ \E i \in 1..MaxSaves : \E updated \in UserSettings : SaveOk(i, updated)
    \/ \E i \in 1..MaxSaves : SaveFail(i)
    \/ Close
    \/ Tick
    \/ Reload

Spec == Init /\ [][Next]_vars

\* the service settles the getSettings() promise and the continuation runs
LoadResponse == LoadFail \/ \E data \in UserSettings : LoadOk(data)

\* the service settles the updateSettings() promise of the request issued
\* s-th and the continuation runs
SaveResponse(s) ==
    \E i \in 1..Len(inflight) :
        /\ inflight[i].seq = s
        /\ (SaveFail(i) \/ \E updated \in UserSettings : SaveOk(i, updated))

\* every awaited promise settles, time passes, and a due timer callback runs;
\* the user is under no obligation to act
FairSpec ==
    /\ Spec
    /\ WF_vars(LoadResponse)
    /\ \A s \in 1..MaxSaves : WF_vars(SaveResponse(s))
    /\ WF_vars(Tick)
    /\ WF_vars(Reload)

\* time passes and a due timer callback runs; neither the service nor the
\* user is under any obligation
TimerSpec ==
    /\ Spec
    /\ WF_vars(Tick)
    /\ WF_vars(Reload)

(* ------------------------- derived history ----------------------------- *)

\* the handler that ran last made the call e
Called(fx, e) == \E k \in 1..Len(fx) : fx[k] = e

\* the save that finished last
LastArrival == arrivals[Len(arrivals)]

\* of two finished saves, the one issued first was answered last, so both
\* were awaiting their responses at the same time
Crossed(a, b) == a < b /\ arrivals[a].seq > arrivals[b].seq

\* a step in which the response of one save was handled
SaveFinishes == Len(arrivals') = Len(arrivals) + 1

\* the request whose response the step handles
Finishing(r) ==
    /\ \E k \in 1..Len(inflight) : inflight[k] = r
    /\ r.seq = arrivals'[Len(arrivals')].seq

(* ------------------------------ claims --------------------------------- *)

\* C1: a save that fails leaves the local settings exactly as they were
\* before its failure was handled; the failure path writes nothing to them.
C1_SaveFailureKeepsSettings ==
    [][(SaveFinishes /\ ~arrivals'[Len(arrivals')].ok)
          => (settings' = settings /\ ~Called(effects', "setSettings"))]_vars

\* a save has just failed on loaded settings
C1_Witness ==
    /\ arrivals # <<>>
    /\ ~LastArrival.ok
    /\ Called(effects, "alert:failed")
    /\ settings # Null

\* C2: a reload timer is started only by the handling of a successful save
\* whose update has the ai field; no other step, and no failed save and no
\* successful save of another field, starts one.
C2_ReloadOnlyAfterAiSave ==
    [][(Len(timers') > Len(timers) \/ Called(effects', "setTimeout"))
          => /\ SaveFinishes
             /\ arrivals'[Len(arrivals')].ok
             /\ \E k \in 1..Len(inflight) :
                   /\ Finishing(inflight[k])
                   /\ "ai" \in DOMAIN inflight[k].updates
                   /\ inflight[k].tab = "ai"]_vars

\* two saves have succeeded and only the second, an ai save, started a timer
C2_Witness ==
    /\ Len(arrivals) = 2
    /\ arrivals[1].ok /\ arrivals[2].ok
    /\ Called(effects, "setTimeout")
    /\ Len(timers) = 1

\* the field of UserSettings that belongs to a tab
C3_FieldOf(tab) ==
    CASE tab = "sources"    -> "credentials"
      [] tab = "generation" -> "generation"
      [] tab = "export"     -> "export_profiles"
      [] tab = "ui"         -> "ui"
      [] tab = "cache"      -> "cache"
      [] tab = "ai"         -> "ai"

\* C3: every update request sent by a tab's save callback has exactly one
\* top-level field, the field of that tab.
C3_OneFieldPerRequest ==
    \A k \in 1..Len(inflight) :
        /\ Cardinality(DOMAIN inflight[k].updates) = 1
        /\ DOMAIN inflight[k].updates = {C3_FieldOf(inflight[k].tab)}

\* requests of two different tabs, one of them the ui tab, are in flight
C3_Witness ==
    /\ Len(inflight) = 2
    /\ inflight[1].tab # inflight[2].tab
    /\ inflight[2].tab = "ui"

\* C4: once the fetch issued on mount has failed, it stays failed; settings
\* are unset, loading is cleared, the spinner is shown and no editor is,
\* no save has been issued and no second fetch has been made.
C4_LoadFailureContained ==
    /\ [](fetch = "failed" =>
            /\ settings = Null
            /\ loading = FALSE
            /\ Blocked
            /\ Editors = {}
            /\ nSaves = 0 /\ inflight = <<>> /\ arrivals = <<>>
            /\ nFetch = 1)
    /\ [][fetch = "failed" => fetch' = "failed"]_vars

\* the fetch has failed
C4_Witness ==
    /\ fetch = "failed"
    /\ Called(effects, "console.error")
    /\ mounted

\* C5: the local settings always equal the latest successful response of
\* the service (unset before the first); nothing else writes them.
C5_ServerAuthoritative == settings = response

\* the dialog was closed on the ai tab after one save failed, while a save
\* whose update differs from the local settings is still awaiting its response
C5_Witness ==
    /\ ~mounted
    /\ activeTab = "ai"
    /\ Len(arrivals) = 1 /\ ~arrivals[1].ok
    /\ Len(inflight) = 1
    /\ "ai" \in DOMAIN inflight[1].updates
    /\ ("ai" \notin DOMAIN settings \/ settings.ai # inflight[1].updates.ai)

\* C6: when two saves have both succeeded, in particular two that were in
\* flight together, and no save has succeeded since, the local settings equal
\* the response that arrived second, whatever the order of issue.
C6_LastArrivalWins ==
    (\E a, b \in 1..Len(arrivals) :
        a < b /\ arrivals[a].ok /\ arrivals[b].ok)
    => settings = response

\* the save issued first was answered second; both succeeded
C6_Witness ==
    /\ Len(arrivals) = 2
    /\ Crossed(1, 2)
    /\ arrivals[1].ok /\ arrivals[2].ok
    /\ Called(effects, "alert:saved")

\* C7: whenever a save request is awaiting its response, the saving flag
\* handed to the editor on screen is true.
C7_SavingWhileInFlight ==
    (Rendered /\ inflight # <<>>) => \A e \in Editors : e.saving

\* C8: the handling of a save's response, success or failure, leaves the
\* saving flag false, and the flag is false whenever no save is in flight.
C8_SavingCleared ==
    /\ inflight = <<>> => saving = FALSE
    /\ (Called(effects, "alert:saved") \/ Called(effects, "alert:failed"))
          => saving = FALSE

\* a save has just failed, none is in flight, and the editor is on screen
C8_Witness ==
    /\ Called(effects, "alert:failed")
    /\ inflight = <<>>
    /\ Editors # {}
    /\ \A e \in Editors : ~e.saving

\* the fallback object of the ai tab, as documented
C9_Default ==
    [enabled |-> FALSE, ollama_url |-> "http://localhost:11434",
     vision_model |-> "qwen3-vl:235b-cloud",
     coder_model |-> "qwen3-coder:480b-cloud",
     auto_analyze |-> FALSE, timeout_seconds |-> 120]

\* C9: while the service's aggregate has no ai field, the ai tab shows the
\* documented default, the stored settings still have no ai field, every
\* request with an ai field comes from the ai tab's save callback, and a
\* request is sent only by a handleSave call.
C9_DefaultNotPersisted ==
    /\ []((Rendered /\ activeTab = "ai" /\ "ai" \notin DOMAIN settings)
            => Editors = {[tab |-> "ai", slice |-> C9_Default,
                           saving |-> saving]})
    /\ []((response # Null /\ "ai" \notin DOMAIN response)
            => "ai" \notin DOMAIN settings)
    /\ [](\A k \in 1..Len(inflight) :
            "ai" \in DOMAIN inflight[k].updates => inflight[k].tab = "ai")
    /\ [][Len(inflight') > Len(inflight)
            => (nSaves' = nSaves + 1 /\ Called(effects', "updateSettings")
                /\ \E e \in Editors :
                      inflight'[Len(inflight')].tab = e.tab)]_vars

\* the ai tab is on screen over settings without ai while the request of
\* another tab is in flight; no request with an ai field has been sent
C9_Witness ==
    /\ Rendered
    /\ activeTab = "ai"
    /\ "ai" \notin DOMAIN settings
    /\ effects = <<"setActiveTab">>
    /\ nSaves = 1 /\ Len(inflight) = 1
    /\ inflight[1].tab = "sources"

\* C10: selecting a tab is always possible while the sidebar is on screen;
\* it sets the active tab to the chosen one, calls neither the fetch nor the
\* update, and changes nothing else; selecting the active tab changes no
\* component state at all.
C10_SelectTabPure ==
    /\ [](Rendered => \A id \in TabId : ENABLED SelectTab(id))
    /\ [][\A id \in TabId : SelectTab(id) =>
            /\ activeTab' = id
            /\ effects' = <<"setActiveTab">>
            /\ UNCHANGED <<settings, loading, saving, fetch, nFetch, inflight,
                           nSaves, arrivals, timers, mounted, reloaded,
                           response>>
            /\ (id = activeTab => UNCHANGED activeTab)]_vars

\* a tab was selected while a save was in flight and a reload was pending
C10_Witness ==
    /\ effects = <<"setActiveTab">>
    /\ activeTab = "ai"
    /\ saving
    /\ inflight # <<>>
    /\ timers # <<>>

\* C11 as stated: whenever the load or a save is awaited in the open dialog,
\* every tab can be selected, and no editor is shown while loading.
C11_InteractiveWhileAwaiting ==
    (mounted /\ ~reloaded /\ (fetch = "pending" \/ inflight # <<>>))
    => /\ \A id \in TabId : ENABLED SelectTab(id)
       /\ (loading => Editors = {})

\* C11 (amended): whenever a save is awaited in the open dialog, every tab
\* can be selected; while the load is awaited the spinner replaces the whole
\* dialog, so no editor is shown and no tab can be selected.
C11_InteractiveWhileSaving ==
    /\ (mounted /\ ~reloaded /\ inflight # <<>>)
          => \A id \in TabId : ENABLED SelectTab(id)
    /\ fetch = "pending"
          => /\ loading
             /\ Editors = {}
             /\ \A id \in TabId : ~ENABLED SelectTab(id)

\* a tab was selected while two saves were awaiting their responses
C11_Witness ==
    /\ Rendered
    /\ Len(inflight) = 2
    /\ effects = <<"setActiveTab">>
    /\ activeTab = "export"

\* the request issued s-th is awaiting its response
Awaiting(s) == \E k \in 1..Len(inflight) : inflight[k].seq = s

\* the response of the request issued s-th has been handled
Handled(s) == \E k \in 1..Len(arrivals) : arrivals[k].seq = s

\* C12: every load or save request, once issued, eventually has its success
\* or failure handling executed, whatever happens after it was issued.
C12_RunsToCompletion ==
    /\ (fetch = "pending") ~> (fetch \in {"ok", "failed"})
    /\ \A s \in 1..MaxSaves : Awaiting(s) ~> Handled(s)

\* C13: a successful save whose update has the ai field is eventually
\* followed by the page reload; the reload runs only from a timer whose
\* full delay of 1000 ms has passed, never in the step that handles the
\* response, and every timer is started with that full delay.
C13_ReloadAfterDelay ==
    /\ Called(effects, "setTimeout") ~> reloaded
    /\ [][Len(timers') > Len(timers)
            => timers'[Len(timers')] = 1000]_vars
    /\ [][(reloaded' /\ ~reloaded)
            => /\ ~SaveFinishes
               /\ \E k \in 1..Len(timers) : timers[k] = 0]_vars

\* the page has reloaded after an ai save succeeded, with the dialog open
C13_Witness ==
    /\ reloaded
    /\ mounted
    /\ Len(timers) = 1
    /\ arrivals # <<>> /\ LastArrival.ok

\* C14: loading is true exactly until the one load attempt has resolved,
\* with success or with failure, and once false it never becomes true again.
C14_LoadingUntilResolved ==
    /\ [](loading <=> fetch \in {"idle", "pending"})
    /\ [](nFetch <= 1)
    /\ [][~loading => ~loading']_vars

\* after the load, a save has failed, another is awaited and a tab was
\* selected; loading is still false
C14_Witness ==
    /\ fetch = "ok"
    /\ ~loading
    /\ Len(arrivals) = 1 /\ ~arrivals[1].ok
    /\ Len(inflight) = 1
    /\ effects = <<"setActiveTab">>

\* C15: a save call is accepted whether or not the saving flag is set: the
\* editor on screen can always trigger one (up to the bound of the model),
\* and every call sends exactly one request, so the calls made equal the
\* requests awaited plus the requests finished.
C15_ConcurrentSavesAccepted ==
    /\ []((Rendered /\ nSaves < MaxSaves) => ENABLED Save)
    /\ [](nSaves = Len(inflight) + Len(arrivals))
    /\ [][nSaves' # nSaves
            => /\ nSaves' = nSaves + 1
               /\ inflight' = Append(inflight, inflight'[Len(inflight')])
               /\ effects' = <<"setSaving", "updateSettings">>
               /\ saving']_vars

\* a second save was accepted while the first was still awaited
C15_Witness ==
    /\ Len(inflight) = 2
    /\ nSaves = 2
    /\ saving
    /\ effects = <<"setSaving", "updateSettings">>

C17_NoSaveBeforeLoad ==
    /\ [](nSaves > 0 => (fetch = "ok" /\ ~loading /\ settings # Null))
    /\ [][nSaves' > nSaves
            => (fetch = "ok" /\ ~loading /\ settings # Null)]_vars
    /\ [][(fetch = "pending" /\ fetch' # "pending")
            => (nSaves = 0 /\ arrivals = <<>> /\ settings = Null)]_vars

\* a save issued after the load has succeeded and replaced the loaded settings
C17_Witness ==
    /\ fetch = "ok"
    /\ nSaves = 1
    /\ Len(arrivals) = 1 /\ arrivals[1].ok
    /\ Called(effects, "alert:saved")
    /\ settings = response

\* the place of the call e among the calls fx
Pos(fx, e) == CHOOSE k \in 1..Len(fx) : fx[k] = e

\* C18: the handling of a successful response first replaces the settings,
\* then shows the notification, then (only if a timer is started at all)
\* starts the reload timer, and clears the saving flag last; a timer is only
\* ever started in a step after which the settings hold the response.
C18_SuccessOrder ==
    /\ [](Called(effects, "alert:saved")
            => /\ Called(effects, "setSettings") /\ Called(effects, "setSaving")
               /\ Pos(effects, "setSettings") = 1
               /\ Pos(effects, "setSettings") < Pos(effects, "alert:saved")
               /\ Pos(effects, "alert:saved") < Pos(effects, "setSaving")
               /\ Pos(effects, "setSaving") = Len(effects)
               /\ Called(effects, "setTimeout")
                     => /\ Pos(effects, "alert:saved")
                             < Pos(effects, "setTimeout")
                        /\ Pos(effects, "setTimeout")
                             < Pos(effects, "setSaving"))
    /\ [][Len(timers') > Len(timers)
            => /\ Called(effects', "setTimeout")
               /\ Called(effects', "alert:saved")
               /\ settings' = response'
               /\ ~saving']_vars

\* an ai save has just succeeded: settings, notification, timer, flag
C18_Witness ==
    /\ effects = <<"setSettings", "alert:saved", "setTimeout", "setSaving">>
    /\ timers = <<1000>>
    /\ settings = response
    /\ "ai" \in DOMAIN settings
    /\ ~saving

\* C19: a reload timer, once started, is never removed or set back, by
\* closing the dialog, selecting a tab, issuing a save or a failing save,
\* and the page eventually reloads; an ai save answered successfully after
\* the dialog was closed starts its timer all the same.
C19_ReloadNeverCancelled ==
    /\ (timers # <<>>) ~> reloaded
    /\ [][/\ Len(timers') >= Len(timers)
          /\ \A k \in 1..Len(timers) : timers'[k] <= timers[k]]_vars
    /\ [][(/\ ~mounted
           /\ SaveFinishes
           /\ arrivals'[Len(arrivals')].ok
           /\ \E k \in 1..Len(inflight) :
                 /\ Finishing(inflight[k])
                 /\ "ai" \in DOMAIN inflight[k].updates)
            => Len(timers') = Len(timers) + 1]_vars

\* the page has reloaded from the timer of an ai save that was answered
\* after the dialog had been closed with the save still awaited
C19_Witness ==
    /\ reloaded
    /\ ~mounted
    /\ nSaves = 1
    /\ Len(arrivals) = 1 /\ arrivals[1].ok
    /\ timers = <<0>>

====
